---- MODULE Spec2Model ----
(***************************************************************************)
(* A model of bin/join_junctions.py: read_junctions pools the lines of the *)
(* junction files into an insertion-ordered mapping, _write_junctions      *)
(* filters the mapping by pooled coverage and writes the output table.     *)
(* Text is modelled as sequences of one-character strings, so that         *)
(* splitting, integer parsing, key building and formatting are computed.   *)
(***************************************************************************)
EXTENDS Integers, Sequences, FiniteSets, TLC

\* ------------------------------------------------------------------ bounds

\* A run opens junction files and reads lines at most MaxReads times in all.
MaxReads == 4

\* ------------------------------------------------------- program constants

DEFAULT_JUNCTION_LENGTH == 50

DEFAULT_JUNCTION_COVERAGE == 5

\* ------------------------------------------------------------------- text

Digit == {"0", "1", "2", "3", "4", "5", "6", "7", "8", "9"}

\* The characters str.strip() and str.split() treat as separators.
Whitespace == {" ", "\t", "\n"}

DigitVal(c) ==
  CASE c = "0" -> 0 [] c = "1" -> 1 [] c = "2" -> 2 [] c = "3" -> 3
    [] c = "4" -> 4 [] c = "5" -> 5 [] c = "6" -> 6 [] c = "7" -> 7
    [] c = "8" -> 8 [] c = "9" -> 9

DigitChar(d) ==
  CASE d = 0 -> "0" [] d = 1 -> "1" [] d = 2 -> "2" [] d = 3 -> "3"
    [] d = 4 -> "4" [] d = 5 -> "5" [] d = 6 -> "6" [] d = 7 -> "7"
    [] d = 8 -> "8" [] d = 9 -> "9"

\* The token without its optional sign.
Unsigned(tok) ==
  IF tok # <<>> /\ tok[1] \in {"+", "-"} THEN Tail(tok) ELSE tok

\* int(tok) succeeds: an optional sign, then digits, single underscores
\* allowed between digits.
IsInt(tok) ==
  LET body == Unsigned(tok) IN
    /\ body # <<>>
    /\ \A i \in 1..Len(body) : body[i] \in Digit \cup {"_"}
    /\ body[1] # "_"
    /\ body[Len(body)] # "_"
    /\ \A i \in 1..(Len(body) - 1) : ~(body[i] = "_" /\ body[i + 1] = "_")

RECURSIVE DigitsVal(_, _)
DigitsVal(s, n) ==
  IF s = <<>> THEN n
  ELSE IF Head(s) = "_" THEN DigitsVal(Tail(s), n)
  ELSE DigitsVal(Tail(s), 10 * n + DigitVal(Head(s)))

\* The value of int(tok) for a token with IsInt(tok).
int(tok) ==
  IF tok[1] = "-" THEN 0 - DigitsVal(Unsigned(tok), 0)
  ELSE DigitsVal(Unsigned(tok), 0)

RECURSIVE NatStr(_)
NatStr(n) ==
  IF n < 10 THEN <<DigitChar(n)>>
  ELSE Append(NatStr(n \div 10), DigitChar(n % 10))

\* An integer as an f-string prints it.
str(n) == IF n < 0 THEN <<"-">> \o NatStr(0 - n) ELSE NatStr(n)

RECURSIVE SplitFrom(_, _, _, _)
SplitFrom(s, i, cur, done) ==
  LET closed == IF cur = <<>> THEN done ELSE Append(done, cur) IN
    IF i > Len(s) THEN closed
    ELSE IF s[i] \in Whitespace THEN SplitFrom(s, i + 1, <<>>, closed)
    ELSE SplitFrom(s, i + 1, Append(cur, s[i]), done)

\* line.strip().split(): the maximal runs of non-whitespace characters.
split(line) == SplitFrom(line, 1, <<>>, <<>>)

RECURSIVE join(_, _)
join(toks, sep) ==
  IF toks = <<>> THEN <<>>
  ELSE IF Len(toks) = 1 THEN toks[1]
  ELSE toks[1] \o <<sep>> \o join(Tail(toks), sep)

\* ------------------------------------------------------- read_junctions

\* The guard of the field-count check.
TooFewFields(fields) == Len(fields) < 8

\* The tuple assignment to nine names needs exactly nine fields.
Unpacks(fields) == Len(fields) = 9

\* The length filter with <= for <.
TooShort_Inclusive(start, end, min_length) ==
  int(end) - int(start) <= min_length

\* The length filter with the comparison turned round.
TooShort_Swapped(start, end, min_length) == int(end) - int(start) > min_length

\* The length filter.
TooShort(start, end, min_length) == int(end) - int(start) < min_length

\* The flag compared without int(): a string never equals the integer 1.
IsAnnotated_Text(annotated) == FALSE

\* The annotation filter.
IsAnnotated(annotated) == int(annotated) = 1

\* The key of the mapping, built from the text of the fields.
Key(chr, start, end, strand) ==
  chr \o <<":">> \o start \o <<"-">> \o end \o <<":">> \o strand

\* key in accumulator
HasKey(acc, key) == \E i \in 1..Len(acc) : acc[i].key = key

\* The position of accumulator[key] in insertion order.
IndexOf(acc, key) == CHOOSE i \in 1..Len(acc) : acc[i].key = key

\* The message of the length filter.
SkipMessage(chr, start, end) ==
  [chr |-> chr, start |-> start, end |-> end,
   shorter_than |-> DEFAULT_JUNCTION_LENGTH]

\* The value stored for a key seen for the first time, from the nine fields.
NewValue(fields) ==
  [chr |-> fields[1], start |-> fields[2], end |-> fields[3],
   strand |-> fields[4], splice_sites |-> fields[5],
   coverage |-> int(fields[7]), multimap_coverage |-> int(fields[8]),
   alignment_overhang |-> int(fields[9])]

\* The coverage assigned instead of added.
AddCoverage_Assign(value, coverage) ==
  [value EXCEPT !.coverage = int(coverage)]

AddCoverage(value, coverage) ==
  [value EXCEPT !.coverage = @ + int(coverage)]

\* The multimap coverage of the last record instead of the sum.
AddMultimap_Assign(value, multimap_coverage) ==
  [value EXCEPT !.multimap_coverage = int(multimap_coverage)]

AddMultimap(value, multimap_coverage) ==
  [value EXCEPT !.multimap_coverage = @ + int(multimap_coverage)]

\* The overhang of the last record instead of the greatest.
MaxOverhang_Last(value, alignment_overhang) ==
  [value EXCEPT !.alignment_overhang = int(alignment_overhang)]

MaxOverhang(value, alignment_overhang) ==
  [value EXCEPT !.alignment_overhang =
     IF int(alignment_overhang) > @ THEN int(alignment_overhang) ELSE @]

\* The merge that re-inserts the entry, which takes it to the end of the dict.
MergeInto_MoveToEnd(acc, i, coverage, multimap_coverage, alignment_overhang) ==
  LET v0 == acc[i].value
      v1 == AddCoverage(v0, coverage)
      v2 == AddMultimap(v1, multimap_coverage)
      v3 == MaxOverhang(v2, alignment_overhang)
      rest == [j \in 1..(Len(acc) - 1) |-> IF j < i THEN acc[j] ELSE acc[j + 1]]
      put(v) == Append(rest, [key |-> acc[i].key, value |-> v])
  IN  IF ~IsInt(coverage) THEN [accumulator |-> acc, raised |-> "int"]
      ELSE IF ~IsInt(multimap_coverage)
        THEN [accumulator |-> put(v1), raised |-> "int"]
      ELSE IF ~IsInt(alignment_overhang)
        THEN [accumulator |-> put(v2), raised |-> "int"]
      ELSE [accumulator |-> put(v3), raised |-> "none"]

\* The three statements of the "key in accumulator" branch, in order; an
\* int() that fails raises after the statements before it have taken effect.
MergeInto(acc, i, coverage, multimap_coverage, alignment_overhang) ==
  LET v0 == acc[i].value
      v1 == AddCoverage(v0, coverage)
      v2 == AddMultimap(v1, multimap_coverage)
      v3 == MaxOverhang(v2, alignment_overhang)
      put(v) == [acc EXCEPT ![i].value = v]
  IN  IF ~IsInt(coverage) THEN [accumulator |-> acc, raised |-> "int"]
      ELSE IF ~IsInt(multimap_coverage)
        THEN [accumulator |-> put(v1), raised |-> "int"]
      ELSE IF ~IsInt(alignment_overhang)
        THEN [accumulator |-> put(v2), raised |-> "int"]
      ELSE [accumulator |-> put(v3), raised |-> "none"]

\* The insert that binds the name to a new dict with the one entry.
Insert_Fresh(acc, key, fields) ==
  IF ~IsInt(fields[7]) \/ ~IsInt(fields[8]) \/ ~IsInt(fields[9])
  THEN [accumulator |-> acc, raised |-> "int"]
  ELSE [accumulator |-> <<[key |-> key, value |-> NewValue(fields)]>>,
        raised |-> "none"]

\* The else branch: the value is built first, then stored under the key.
Insert(acc, key, fields) ==
  IF ~IsInt(fields[7]) \/ ~IsInt(fields[8]) \/ ~IsInt(fields[9])
  THEN [accumulator |-> acc, raised |-> "int"]
  ELSE [accumulator |-> Append(acc, [key |-> key, value |-> NewValue(fields)]),
        raised |-> "none"]

\* The merge that also takes the splice-site code of the record merged in.
Aggregate_LastSplice(acc, fields) ==
  LET key == Key(fields[1], fields[2], fields[3], fields[4]) IN
    IF HasKey(acc, key)
    THEN LET i == IndexOf(acc, key)
             r == MergeInto(acc, i, fields[7], fields[8], fields[9])
         IN  [accumulator |->
                [r.accumulator EXCEPT ![i].value.splice_sites = fields[5]],
              raised |-> r.raised]
    ELSE Insert(acc, key, fields)

\* What the filters let through: the record is merged or inserted.
Aggregate(acc, fields) ==
  LET key == Key(fields[1], fields[2], fields[3], fields[4]) IN
    IF HasKey(acc, key)
    THEN MergeInto(acc, IndexOf(acc, key), fields[7], fields[8], fields[9])
    ELSE Insert(acc, key, fields)

\* One turn of the loop over the lines of a file:
\* [accumulator, printed, raised], raised being "none", "unpack" (the
\* ValueError of the tuple assignment) or "int" (the ValueError of int()).
ReadOneLine(acc, msgs, line, min_length) ==
  LET fields == split(line)
      same(r) == [accumulator |-> acc, printed |-> msgs, raised |-> r]
  IN  IF TooFewFields(fields) THEN same("none")
      ELSE IF ~Unpacks(fields) THEN same("unpack")
      ELSE IF ~IsInt(fields[3]) \/ ~IsInt(fields[2]) THEN same("int")
      ELSE IF TooShort(fields[2], fields[3], min_length)
        THEN [accumulator |-> acc,
              printed |-> Append(msgs, SkipMessage(fields[1], fields[2], fields[3])),
              raised |-> "none"]
      ELSE IF ~IsInt(fields[6]) THEN same("int")
      ELSE IF IsAnnotated(fields[6]) THEN same("none")
      ELSE LET r == Aggregate(acc, fields)
           IN  [accumulator |-> r.accumulator, printed |-> msgs,
                raised |-> r.raised]

\* ----------------------------------------------------- _write_junctions

\* The filter with the boundary on the wrong side.
Emitted_Strict(value, min_coverage) == ~(value.coverage <= min_coverage)

\* The coverage filter of the writer: the entry is written.
Emitted(value, min_coverage) == ~(value.coverage < min_coverage)

\* The line that copies a flag of 0 where the code writes the literal 1.
OutputLine_FlagKept(value) ==
  join(<<value.chr, value.start, value.end, value.strand, value.splice_sites,
         <<"0">>, str(value.coverage), str(value.multimap_coverage),
         str(value.alignment_overhang)>>, "\t") \o <<"\n">>

\* The line written for an entry, with its newline.
OutputLine(value) ==
  join(<<value.chr, value.start, value.end, value.strand, value.splice_sites,
         <<"1">>, str(value.coverage), str(value.multimap_coverage),
         str(value.alignment_overhang)>>, "\t") \o <<"\n">>

\* ------------------------------------------------------------ the inputs

\* A line of a junction file: the fields separated by tabs, then a newline.
Row(toks) == join(toks, "\t") \o <<"\n">>

\* Accepted when the minimum length is 50, one base short when it is 51.
LineA ==
  Row(<<<<"c">>, <<"1">>, <<"5", "1">>, <<"+">>, <<"G", "T">>, <<"0">>,
        <<"2">>, <<"1">>, <<"3">>>>)

\* The junction of LineA again, with another splice-site code and counters.
LineA2 ==
  Row(<<<<"c">>, <<"1">>, <<"5", "1">>, <<"+">>, <<"C", "T">>, <<"0">>,
        <<"3">>, <<"2">>, <<"1">>>>)

\* The coordinates of LineA with the start written 01.
LineA01 ==
  Row(<<<<"c">>, <<"0", "1">>, <<"5", "1">>, <<"+">>, <<"G", "T">>, <<"0">>,
        <<"2">>, <<"1">>, <<"3">>>>)

\* Another junction, 51 bases long, on the other strand.
LineB ==
  Row(<<<<"c">>, <<"1">>, <<"5", "2">>, <<"-">>, <<"G", "T">>, <<"0">>,
        <<"4">>, <<"0">>, <<"2">>>>)

\* The junction of LineB with counters below zero, which int() accepts.
LineBNegative ==
  Row(<<<<"c">>, <<"1">>, <<"5", "2">>, <<"-">>, <<"G", "T">>, <<"0">>,
        <<"-", "1">>, <<"-", "1">>, <<"-", "1">>>>)

\* The junction of LineB, annotated, with a coverage above every threshold.
LineBAnnotated ==
  Row(<<<<"c">>, <<"1">>, <<"5", "2">>, <<"-">>, <<"G", "T">>, <<"1">>,
        <<"6">>, <<"1">>, <<"5">>>>)

\* A line of seven fields.
LineSeven ==
  Row(<<<<"c">>, <<"1">>, <<"5", "2">>, <<"-">>, <<"G", "T">>, <<"0">>,
        <<"3">>>>)

\* A line of eight fields.
LineEight ==
  Row(<<<<"c">>, <<"1">>, <<"5", "2">>, <<"-">>, <<"G", "T">>, <<"0">>,
        <<"3">>, <<"0">>>>)

\* A record of the junction of LineB with a tenth column.
LineTen ==
  Row(<<<<"c">>, <<"1">>, <<"5", "2">>, <<"-">>, <<"G", "T">>, <<"0">>,
        <<"3">>, <<"0">>, <<"2">>, <<"7">>>>)

\* A start that is no integer.
LineBadStart ==
  Row(<<<<"c">>, <<"x">>, <<"5", "2">>, <<"-">>, <<"G", "T">>, <<"0">>,
        <<"3">>, <<"0">>, <<"2">>>>)

\* The junction of LineA with a unique coverage that is no integer.
LineBadCoverage ==
  Row(<<<<"c">>, <<"1">>, <<"5", "1">>, <<"+">>, <<"G", "T">>, <<"0">>,
        <<"x">>, <<"1">>, <<"3">>>>)

\* The junction of LineB with a multimap coverage that is no integer.
LineBadMultimap ==
  Row(<<<<"c">>, <<"1">>, <<"5", "2">>, <<"-">>, <<"G", "T">>, <<"0">>,
        <<"3">>, <<"x">>, <<"2">>>>)

\* The lines a junction file may hold.
InputLines ==
  {LineA, LineA2, LineA01, LineB, LineBNegative, LineBAnnotated, LineSeven,
   LineEight, LineTen, LineBadStart, LineBadCoverage, LineBadMultimap}

\* The values of --min-junction-length: the default and one more.
MinLengths == {DEFAULT_JUNCTION_LENGTH, DEFAULT_JUNCTION_LENGTH + 1}

\* The values of --min-junction-coverage: the default and one less.
MinCoverages == {DEFAULT_JUNCTION_COVERAGE - 1, DEFAULT_JUNCTION_COVERAGE}

\* ------------------------------------------------------------- the state

VARIABLES
  files,                 \* the lines read so far, file by file
  seen,                  \* the value of fields for each line read, in order
  min_junction_length,   \* args.min_junction_length
  min_junction_coverage, \* args.min_junction_coverage
  accumulator,           \* the mapping, its entries in insertion order
  printed,               \* the messages printed so far
  pc,                    \* "read", "write", "done" or "error"
  raised,                \* what ended the run: "none" while it has not ended so
  created,               \* the output file exists
  out,                   \* the lines written to the output file
  wi                     \* the entry the writer's loop is at

vars ==
  <<files, seen, min_junction_length, min_junction_coverage, accumulator, printed,
    pc, raised, created, out, wi>>

RECURSIVE Flatten(_)
Flatten(fs) == IF fs = <<>> THEN <<>> ELSE Head(fs) \o Flatten(Tail(fs))

\* All the lines read so far, in the order they were read.
LinesRead == Flatten(files)

\* The files opened and the lines read so far stay within the bound.
MayRead == Len(files) + Len(seen) < MaxReads

Init ==
  /\ files = <<>>
  /\ seen = <<>>
  /\ min_junction_length \in MinLengths
  /\ min_junction_coverage \in MinCoverages
  /\ accumulator = <<>>
  /\ printed = <<>>
  /\ pc = "read"
  /\ raised = "none"
  /\ created = FALSE
  /\ out = <<>>
  /\ wi = 0

\* The open of the next file with the mapping started anew for it.
OpenInput_NewMapping ==
  /\ pc = "read"
  /\ MayRead
  /\ files' = Append(files, <<>>)
  /\ accumulator' = <<>>
  /\ UNCHANGED <<seen, min_junction_length, min_junction_coverage,
                 printed, pc, raised, created, out, wi>>

\* open(junction) succeeds: the loop over its lines starts.
OpenInput ==
  /\ pc = "read"
  /\ MayRead
  /\ files' = Append(files, <<>>)
  /\ UNCHANGED <<seen, min_junction_length, min_junction_coverage,
                 accumulator, printed, pc, raised, created, out, wi>>

\* The open that fails inside a handler that notes it and goes on.
OpenInputFails_Skips ==
  /\ pc = "read"
  /\ MayRead
  /\ raised = "none"
  /\ raised' = "open_input"
  /\ UNCHANGED <<files, seen, min_junction_length, min_junction_coverage,
                 accumulator, printed, pc, created, out, wi>>

\* open(junction) raises: nothing catches it.
OpenInputFails ==
  /\ pc = "read"
  /\ MayRead
  /\ pc' = "error"
  /\ raised' = "open_input"
  /\ UNCHANGED <<files, seen, min_junction_length, min_junction_coverage,
                 accumulator, printed, created, out, wi>>

\* The next line of the open file goes through the loop body.
ReadLine ==
  /\ pc = "read"
  /\ files # <<>>
  /\ MayRead
  /\ \E line \in InputLines :
       LET r == ReadOneLine(accumulator, printed, line, min_junction_length) IN
         /\ files' = [files EXCEPT ![Len(files)] = Append(@, line)]
         /\ seen' = Append(seen, split(line))
         /\ accumulator' = r.accumulator
         /\ printed' = r.printed
         /\ raised' = r.raised
         /\ pc' = IF r.raised = "none" THEN "read" ELSE "error"
  /\ UNCHANGED <<min_junction_length, min_junction_coverage, created, out, wi>>

\* The output file opened before the input files have been read through.
OpenOutput_Early ==
  /\ pc = "read"
  /\ files # <<>>
  /\ ~created
  /\ created' = TRUE
  /\ UNCHANGED <<files, seen, min_junction_length, min_junction_coverage,
                 accumulator, printed, pc, raised, out, wi>>

\* The last file is exhausted, read_junctions returns the mapping and
\* _write_junctions opens the output file.
OpenOutput ==
  /\ pc = "read"
  /\ files # <<>>
  /\ pc' = "write"
  /\ created' = TRUE
  /\ wi' = 1
  /\ UNCHANGED <<files, seen, min_junction_length, min_junction_coverage,
                 accumulator, printed, raised, out>>

\* The same, and the open of the output file raises.
OpenOutputFails ==
  /\ pc = "read"
  /\ files # <<>>
  /\ pc' = "error"
  /\ raised' = "open_output"
  /\ UNCHANGED <<files, seen, min_junction_length, min_junction_coverage,
                 accumulator, printed, created, out, wi>>

\* One turn of the writer's loop over the entries.
WriteEntry ==
  /\ pc = "write"
  /\ wi <= Len(accumulator)
  /\ out' = IF Emitted(accumulator[wi].value, min_junction_coverage)
            THEN Append(out, OutputLine(accumulator[wi].value))
            ELSE out
  /\ wi' = wi + 1
  /\ UNCHANGED <<files, seen, min_junction_length, min_junction_coverage,
                 accumulator, printed, pc, raised, created>>

\* The writer that starts over when it reaches the end of the mapping.
Close_StartsOver ==
  /\ pc = "write"
  /\ wi > Len(accumulator)
  /\ accumulator # <<>>
  /\ wi' = 1
  /\ out' = <<>>
  /\ UNCHANGED <<files, seen, min_junction_length, min_junction_coverage,
                 accumulator, printed, pc, raised, created>>

\* The loop is over and the output file is closed.
Close ==
  /\ pc = "write"
  /\ wi > Len(accumulator)
  /\ pc' = "done"
  /\ UNCHANGED <<files, seen, min_junction_length, min_junction_coverage,
                 accumulator, printed, raised, created, out, wi>>

Next ==
  \/ OpenInput
  \/ OpenInputFails
  \/ ReadLine
  \/ OpenOutput
  \/ OpenOutputFails
  \/ WriteEntry
  \/ Close

Spec == Init /\ [][Next]_vars

\* The interpreter runs the one thread of the program: a step that can be
\* taken is taken.
FairSpec == Spec /\ WF_vars(Next)

\* --------------------------------------------- read_junctions as a function

\* The loop over the lines of one file, from the mapping acc: it stops at
\* the first line that raises.
RECURSIVE ReadFile(_, _, _, _)
ReadFile(acc, msgs, lines, min_length) ==
  IF lines = <<>> THEN [accumulator |-> acc, printed |-> msgs, raised |-> "none"]
  ELSE LET r == ReadOneLine(acc, msgs, Head(lines), min_length) IN
         IF r.raised # "none" THEN r
         ELSE ReadFile(r.accumulator, r.printed, Tail(lines), min_length)

\* The loop over the files, each readable.
RECURSIVE ReadFiles(_, _, _, _)
ReadFiles(acc, msgs, fs, min_length) ==
  IF fs = <<>> THEN [accumulator |-> acc, printed |-> msgs, raised |-> "none"]
  ELSE LET r == ReadFile(acc, msgs, Head(fs), min_length) IN
         IF r.raised # "none" THEN r
         ELSE ReadFiles(r.accumulator, r.printed, Tail(fs), min_length)

\* read_junctions(junctions, min_junction_length) on files that all open.
read_junctions(junctions, min_length) ==
  ReadFiles(<<>>, <<>>, junctions, min_length)

\* The lines _write_junctions writes for a mapping, in the order of its loop.
RECURSIVE write_junctions(_, _)
write_junctions(acc, min_coverage) ==
  IF acc = <<>> THEN <<>>
  ELSE IF Emitted(Head(acc).value, min_coverage)
    THEN <<OutputLine(Head(acc).value)>> \o write_junctions(Tail(acc), min_coverage)
  ELSE write_junctions(Tail(acc), min_coverage)

\* run on files that all open, with an output path that opens: what is
\* raised and the lines of the output file.
run(junctions, min_length, min_coverage) ==
  LET r == read_junctions(junctions, min_length) IN
    IF r.raised # "none" THEN [raised |-> r.raised, out |-> <<>>]
    ELSE [raised |-> "none",
          out |-> write_junctions(r.accumulator, min_coverage)]

\* ------------------------------------------- the vocabulary of the claims

\* The lines read so far, each split into its fields.
FieldsRead == seen

\* The fields are those of a record: the nine columns are there and the
\* coordinates are integers.
IsRecord(f) == Len(f) >= 9 /\ IsInt(f[2]) /\ IsInt(f[3])

\* end - start of a record.
Span(f) == int(f[3]) - int(f[2])

\* The annotated flag of a record is the integer n.
FlagIs(f, n) == IsInt(f[6]) /\ int(f[6]) = n

\* An accepted record: annotated flag 0 and end - start >= min_junction_length.
Accepted(f) == IsRecord(f) /\ FlagIs(f, 0) /\ Span(f) >= min_junction_length

\* The coordinates of a record as written, and those of an entry.
TextKey(f) == <<f[1], f[2], f[3], f[4]>>

EntryKey(value) == <<value.chr, value.start, value.end, value.strand>>

\* The JunctionKey of the data model: start and end as integers.
JunctionKey(f) == <<f[1], int(f[2]), int(f[3]), f[4]>>

EntryJunctionKey(value) ==
  <<value.chr, int(value.start), int(value.end), value.strand>>

\* Of the records fs, the accepted ones whose coordinates are written as k.
RecordsOf(fs, k) == SelectSeq(fs, LAMBDA f : Accepted(f) /\ TextKey(f) = k)

\* The sum of the integers in column n of the records.
RECURSIVE SumField(_, _)
SumField(fs, n) ==
  IF fs = <<>> THEN 0 ELSE int(Head(fs)[n]) + SumField(Tail(fs), n)

\* m is the greatest integer in column n of the records.
IsMaxField(fs, n, m) ==
  /\ \E i \in 1..Len(fs) : int(fs[i][n]) = m
  /\ \A i \in 1..Len(fs) : int(fs[i][n]) <= m

\* The entries of the mapping.
Entries == {accumulator[i].value : i \in 1..Len(accumulator)}

\* The output lines, each split into its fields.
FieldsWritten == [j \in 1..Len(out) |-> split(out[j])]

\* Of the written lines ws, those of the junction an entry stands for.
LinesFor(ws, value) ==
  {j \in 1..Len(ws) : Len(ws[j]) >= 4 /\ SubSeq(ws[j], 1, 4) = EntryKey(value)}

\* The run was ended by an exception raised in the loop body.
LineRaised == pc = "error" /\ raised \in {"unpack", "int"}

\* The key under which read_junctions stores a record.
KeyOf(f) == Key(f[1], f[2], f[3], f[4])

\* ------------------------------------------------------------ the claims

\* C1: while no line has raised, every entry of the mapping holds as unique
\* coverage the sum of the unique-coverage fields, as multimap coverage the
\* sum of the multimap-coverage fields and as max overhang the greatest of
\* the overhang fields of the accepted records read so far that carry the
\* entry's coordinates (as the entry spells them).
C1_PooledCounters ==
  ~LineRaised =>
    LET fs == FieldsRead IN
      \A v \in Entries :
        LET recs == RecordsOf(fs, EntryKey(v)) IN
          /\ v.coverage = SumField(recs, 7)
          /\ v.multimap_coverage = SumField(recs, 8)
          /\ IsMaxField(recs, 9, v.alignment_overhang)

\* An entry pooled from two records, the later with the smaller overhang.
C1_Witness ==
  /\ ~LineRaised
  /\ \E v \in Entries :
       LET recs == RecordsOf(FieldsRead, EntryKey(v)) IN
         /\ Len(recs) >= 2
         /\ int(recs[2][9]) < int(recs[1][9])
         /\ int(recs[2][8]) > 0

\* C2 as stated: the mapping holds at most one entry per JunctionKey (start and
\* end as integers), and two accepted lines go to the same entry exactly when
\* their JunctionKeys are equal.
C2_OneEntryPerJunctionKey ==
  ~LineRaised =>
    LET fs == FieldsRead IN
      /\ \A i, j \in 1..Len(accumulator) :
           EntryJunctionKey(accumulator[i].value)
               = EntryJunctionKey(accumulator[j].value)
             => i = j
      /\ \A a, b \in 1..Len(fs) :
           Accepted(fs[a]) /\ Accepted(fs[b]) =>
             ((KeyOf(fs[a]) = KeyOf(fs[b]))
                <=> (JunctionKey(fs[a]) = JunctionKey(fs[b])))

\* C3: when the writer has finished, an entry has a line in the output if and
\* only if the unique coverage pooled over the accepted records of its
\* coordinates, in all the files, is at least min_junction_coverage.
C3_EmittedIffPooledCoverage ==
  pc = "done" =>
    LET fs == FieldsRead
        ws == FieldsWritten
    IN  \A v \in Entries :
          (LinesFor(ws, v) # {})
            <=> (SumField(RecordsOf(fs, EntryKey(v)), 7) >= min_junction_coverage)

\* A finished run with an entry pooled to exactly the threshold from records
\* that are each below it, which is written, and an entry one below the
\* threshold, which is not.
C3_Witness ==
  /\ pc = "done"
  /\ \E v, w \in Entries :
       LET recs == RecordsOf(FieldsRead, EntryKey(v)) IN
         /\ Len(recs) >= 2
         /\ \A i \in 1..Len(recs) : int(recs[i][7]) < min_junction_coverage
         /\ SumField(recs, 7) = min_junction_coverage
         /\ LinesFor(FieldsWritten, v) # {}
         /\ SumField(RecordsOf(FieldsRead, EntryKey(w)), 7)
              = min_junction_coverage - 1
         /\ LinesFor(FieldsWritten, w) = {}

\* C4: while no line has raised, an unannotated record whose end - start is
\* exactly min_junction_length has an entry; every entry has a record of its
\* coordinates that is at least that long, and its coverages count only such
\* records; every output line is that of a junction with such a record.
C4_LengthBoundary ==
  ~LineRaised =>
    LET fs == FieldsRead
        ws == FieldsWritten
        long(k) == SelectSeq(fs, LAMBDA f :
                     /\ IsRecord(f) /\ FlagIs(f, 0) /\ TextKey(f) = k
                     /\ Span(f) >= min_junction_length)
    IN  /\ \A i \in 1..Len(fs) :
             /\ IsRecord(fs[i])
             /\ FlagIs(fs[i], 0)
             /\ Span(fs[i]) = min_junction_length
             => \E v \in Entries : EntryKey(v) = TextKey(fs[i])
        /\ \A v \in Entries :
             LET recs == long(EntryKey(v)) IN
               /\ recs # <<>>
               /\ v.coverage = SumField(recs, 7)
               /\ v.multimap_coverage = SumField(recs, 8)
        /\ \A j \in 1..Len(ws) : long(SubSeq(ws[j], 1, 4)) # <<>>

\* A finished run that read a record one base short of the minimum, of a
\* junction that got no entry and no output line, and a record of exactly the
\* minimum length, whose junction has an entry.
C4_Witness ==
  /\ pc = "done"
  /\ \E i, j \in 1..Len(seen) :
       /\ IsRecord(seen[i]) /\ FlagIs(seen[i], 0)
       /\ Span(seen[i]) = min_junction_length - 1
       /\ \A v \in Entries : EntryKey(v) # TextKey(seen[i])
       /\ \A w \in 1..Len(out) : SubSeq(split(out[w]), 1, 4) # TextKey(seen[i])
       /\ IsRecord(seen[j]) /\ FlagIs(seen[j], 0)
       /\ Span(seen[j]) = min_junction_length
       /\ \E v \in Entries : EntryKey(v) = TextKey(seen[j])

\* C5: while no line has raised, every entry and every output line is that of
\* a junction for which a record with annotated flag 0 was read: a record with
\* flag 1 creates no entry, and a junction seen only in such records has
\* neither an entry nor an output line.
C5_AnnotatedNeverEnters ==
  ~LineRaised =>
    LET fs == FieldsRead
        ws == FieldsWritten
        novel(k) == \E i \in 1..Len(fs) :
                      IsRecord(fs[i]) /\ TextKey(fs[i]) = k /\ FlagIs(fs[i], 0)
    IN  /\ \A v \in Entries : novel(EntryKey(v))
        /\ \A j \in 1..Len(ws) : novel(SubSeq(ws[j], 1, 4))
        /\ Len(accumulator) <= Cardinality({i \in 1..Len(fs) :
                                              IsRecord(fs[i]) /\ FlagIs(fs[i], 0)})

\* A finished run that read an annotated record, long enough and with a
\* coverage that reaches the threshold, whose junction has no entry and no
\* output line.
C5_Witness ==
  /\ pc = "done"
  /\ \E i \in 1..Len(seen) :
       /\ IsRecord(seen[i]) /\ FlagIs(seen[i], 1)
       /\ Span(seen[i]) >= min_junction_length
       /\ int(seen[i][7]) >= min_junction_coverage
       /\ \A v \in Entries : EntryKey(v) # TextKey(seen[i])
       /\ \A w \in 1..Len(out) : SubSeq(split(out[w]), 1, 4) # TextKey(seen[i])

\* read_junctions has returned the mapping.
Returned == pc \in {"write", "done"}

\* The files in the order p, a permutation of their positions.
Reordered(p) == [i \in 1..Len(files) |-> files[p[i]]]

\* Two mappings have the same keys and, key by key, the same counters.
SameCounters(a, b) ==
  /\ {a[i].key : i \in 1..Len(a)} = {b[j].key : j \in 1..Len(b)}
  /\ \A i \in 1..Len(a), j \in 1..Len(b) :
       a[i].key = b[j].key =>
         /\ a[i].value.coverage = b[j].value.coverage
         /\ a[i].value.multimap_coverage = b[j].value.multimap_coverage
         /\ a[i].value.alignment_overhang = b[j].value.alignment_overhang

\* C6: when read_junctions has returned, it returns for every other order of
\* the same files a mapping with the same keys and, for each key, the same
\* unique coverage, multimap coverage and max overhang.
C6_FileOrderIndependent ==
  Returned =>
    \A p \in Permutations(1..Len(files)) :
      LET r == read_junctions(Reordered(p), min_junction_length) IN
        /\ r.raised = "none"
        /\ SameCounters(r.accumulator, accumulator)

\* Two files whose order shows in the mapping (the first-seen splice-site code
\* or the order of the entries), with an entry pooled over both.
C6_Witness ==
  /\ Returned
  /\ Len(files) = 2
  /\ read_junctions(<<files[2], files[1]>>, min_junction_length).accumulator
       # accumulator
  /\ \E v \in Entries :
       /\ Len(RecordsOf(FieldsRead, EntryKey(v))) >= 2
       /\ \E a \in 1..Len(files[1]), b \in 1..Len(files[2]) :
            /\ KeyOf(split(files[1][a])) = KeyOf(split(files[2][b]))
            /\ TextKey(split(files[1][a])) = EntryKey(v)

\* C7: while no line has raised, an entry whose accepted records are the same
\* line twice holds twice its unique coverage, twice its multimap coverage
\* and its overhang.
C7_RepeatedRecordCountsTwice ==
  ~LineRaised =>
    \A v \in Entries :
      LET recs == RecordsOf(FieldsRead, EntryKey(v)) IN
        (Len(recs) = 2 /\ recs[1] = recs[2]) =>
          /\ v.coverage = 2 * int(recs[1][7])
          /\ v.multimap_coverage = 2 * int(recs[1][8])
          /\ v.alignment_overhang = int(recs[1][9])

\* The same file listed twice, its one record pooled with itself.
C7_Witness ==
  /\ Returned
  /\ Len(files) = 2
  /\ files[1] = files[2]
  /\ files[1] # <<>>
  /\ \E v \in Entries :
       LET recs == RecordsOf(FieldsRead, EntryKey(v)) IN
         /\ Len(recs) = 2 /\ recs[1] = recs[2]
         /\ int(recs[1][7]) > 0 /\ int(recs[1][8]) > 0

\* C8 as stated: a line of fewer than 9 fields raises no error.
C8_FewerThanNineSkipped ==
  (seen # <<>> /\ Len(seen[Len(seen)]) < 9) => ~LineRaised

\* C9 as stated: after a line of more than 9 fields the run is where the line
\* made of its first 9 fields would have brought it.
C9_ExtraColumnsIgnored ==
  (seen # <<>> /\ Len(seen[Len(seen)]) > 9) =>
    LET n == Len(LinesRead)
        cut == Row(SubSeq(seen[n], 1, 9))
        r == ReadFile(<<>>, <<>>, Append(SubSeq(LinesRead, 1, n - 1), cut),
                      min_junction_length)
    IN  /\ r.accumulator = accumulator
        /\ (r.raised = "none") <=> ~LineRaised

\* C10 as stated: a line of at least 9 fields with a start, end, unique
\* coverage, multimap coverage or overhang that is no integer ends the run.
C10_BadNumberAborts ==
  \A i \in 1..Len(seen) :
    (Len(seen[i]) >= 9 /\ \E n \in {2, 3, 7, 8, 9} : ~IsInt(seen[i][n]))
      => (LineRaised /\ i = Len(seen))

\* The place in the lines read of the first accepted record written with the
\* coordinates k (0 when there is none).
FirstAccepted(k) ==
  LET at == {i \in 1..Len(seen) : Accepted(seen[i]) /\ TextKey(seen[i]) = k}
  IN  IF at = {} THEN 0 ELSE CHOOSE i \in at : \A j \in at : i <= j

\* The place of the last such record.
LastAccepted(k) ==
  LET at == {i \in 1..Len(seen) : Accepted(seen[i]) /\ TextKey(seen[i]) = k}
  IN  IF at = {} THEN 0 ELSE CHOOSE i \in at : \A j \in at : j <= i

\* C11: the output lines stand in the order in which their junctions were
\* first accepted, files in the order of the command line and lines in file
\* order: of two lines, the earlier is that of the junction whose first
\* accepted record was read earlier, whatever the coordinates and whatever
\* was merged later.
C11_OutputInFirstAcceptedOrder ==
  Returned =>
    LET ws == FieldsWritten IN
      \A a, b \in 1..Len(ws) :
        a < b =>
          /\ FirstAccepted(SubSeq(ws[a], 1, 4)) > 0
          /\ FirstAccepted(SubSeq(ws[a], 1, 4))
               < FirstAccepted(SubSeq(ws[b], 1, 4))

\* A finished run with two output lines, the first of a junction that took a
\* record after the junction of the second was first accepted.
C11_Witness ==
  /\ pc = "done"
  /\ Len(out) >= 2
  /\ LastAccepted(SubSeq(split(out[1]), 1, 4))
       > FirstAccepted(SubSeq(split(out[2]), 1, 4))
  /\ FirstAccepted(SubSeq(split(out[2]), 1, 4)) > 0

\* C12: every entry holds the splice-site code of the first accepted record
\* read with its coordinates, whatever the codes of the records merged in
\* later; an accepted record with integer counters whose code differs from
\* that of the entry it is merged into raises nothing.
C12_SpliceSiteOfFirstRecord ==
  /\ \A v \in Entries :
       LET first == FirstAccepted(EntryKey(v)) IN
         /\ first > 0
         /\ v.splice_sites = seen[first][5]
  /\ seen # <<>> =>
       LET f == seen[Len(seen)]
           first == FirstAccepted(TextKey(f))
       IN  (/\ Len(f) = 9
            /\ Accepted(f)
            /\ \A n \in {7, 8, 9} : IsInt(f[n])
            /\ first < Len(seen)
            /\ seen[first][5] # f[5])
             => ~LineRaised

\* An entry merged from two records with different codes, holding the first.
C12_Witness ==
  /\ ~LineRaised
  /\ \E v \in Entries :
       LET recs == RecordsOf(FieldsRead, EntryKey(v)) IN
         /\ Len(recs) >= 2
         /\ recs[2][5] # recs[1][5]
         /\ v.splice_sites = recs[1][5]
         /\ v.coverage = int(recs[1][7]) + int(recs[2][7])

\* The fields of a text between the separators sep, an empty field included.
RECURSIVE FieldsBetween(_, _, _, _)
FieldsBetween(s, i, cur, sep) ==
  IF i > Len(s) THEN <<cur>>
  ELSE IF s[i] = sep THEN <<cur>> \o FieldsBetween(s, i + 1, <<>>, sep)
  ELSE FieldsBetween(s, i + 1, Append(cur, s[i]), sep)

\* The tab-separated fields of an output line, its newline taken off.
TabFields(line) ==
  IF line # <<>> /\ line[Len(line)] = "\n"
  THEN FieldsBetween(SubSeq(line, 1, Len(line) - 1), 1, <<>>, "\t")
  ELSE FieldsBetween(line, 1, <<>>, "\t")

\* C13: every line written ends with a newline and has exactly 9
\* tab-separated fields, which are those of an entry of the mapping:
\* chromosome, start, end, strand, splice-site code, the constant 1, unique
\* coverage, multimap coverage and max overhang as decimal integers; the
\* sixth field is 1 although every record that went into the entry had the
\* annotated flag 0.
C13_NineFieldsAnnotatedOne ==
  \A j \in 1..Len(out) :
    LET t == TabFields(out[j]) IN
      /\ out[j][Len(out[j])] = "\n"
      /\ Len(t) = 9
      /\ \A n \in 1..9 : t[n] # <<>> /\ \A c \in 1..Len(t[n]) : t[n][c] \notin Whitespace
      /\ t[6] = <<"1">>
      /\ \E v \in Entries :
           LET recs == RecordsOf(FieldsRead, EntryKey(v)) IN
             /\ <<t[1], t[2], t[3], t[4], t[5]>>
                  = <<v.chr, v.start, v.end, v.strand, v.splice_sites>>
             /\ \A n \in {7, 8, 9} : IsInt(t[n])
             /\ int(t[7]) = v.coverage
             /\ int(t[8]) = v.multimap_coverage
             /\ int(t[9]) = v.alignment_overhang
             /\ recs # <<>>
             /\ \A i \in 1..Len(recs) : recs[i][6] = <<"0">>

\* A finished run with a line whose unique coverage takes two digits.
C13_Witness ==
  /\ pc = "done"
  /\ \E j \in 1..Len(out) :
       LET t == TabFields(out[j]) IN
         /\ Len(t) = 9
         /\ Len(t[7]) = 2
         /\ t[6] = <<"1">>
         /\ int(t[7]) >= 10

\* C14: when the open of an input file has failed, the run is over (no step
\* follows), the output file has not been created and nothing has been
\* written, whatever was ingested from the files before.
C14_UnreadableInputNoOutput ==
  raised = "open_input" =>
    /\ pc = "error"
    /\ ~created
    /\ out = <<>>
    /\ ~ENABLED Next

\* The open of a later file failed after a record of an earlier file had
\* entered the mapping with a coverage the writer would have written.
C14_Witness ==
  /\ raised = "open_input"
  /\ Len(files) >= 1
  /\ \E v \in Entries : Emitted(v, min_junction_coverage)

\* A step has read a line.
LineWasRead == Len(seen') = Len(seen) + 1

\* Column n of the fields is an integer below zero.
IsNegative(f, n) == Len(f) >= n /\ IsInt(f[n]) /\ int(f[n]) < 0

\* Over a step every key of the mapping stays, with a unique coverage and a
\* multimap coverage that are not lower than before.
CoverageKept ==
  \A i \in 1..Len(accumulator) :
    \E j \in 1..Len(accumulator') :
      /\ accumulator'[j].key = accumulator[i].key
      /\ accumulator'[j].value.coverage >= accumulator[i].value.coverage
      /\ accumulator'[j].value.multimap_coverage
           >= accumulator[i].value.multimap_coverage

\* C15 as stated: for every key, unique coverage and multimap coverage never
\* decrease from one step to the next, whatever lines are ingested.
C15_CoverageNeverDecreases == [][CoverageKept]_vars

\* C15 amended: for every key, unique coverage and multimap coverage never
\* decrease over a step, unless the step ingests a line whose unique-coverage
\* or multimap-coverage field is an integer below zero.
C15_CoverageNeverDecreasesUnlessNegative ==
  [][(LineWasRead /\ \E n \in {7, 8} : IsNegative(seen'[Len(seen')], n))
       \/ CoverageKept]_vars

\* An entry merged from two records with counters that are not negative, the
\* second adding to both coverages.
C15_Witness ==
  /\ ~LineRaised
  /\ \E v \in Entries :
       LET recs == RecordsOf(FieldsRead, EntryKey(v)) IN
         /\ Len(recs) >= 2
         /\ \A i \in 1..Len(recs) : ~IsNegative(recs[i], 7) /\ ~IsNegative(recs[i], 8)
         /\ int(recs[2][7]) > 0
         /\ int(recs[2][8]) > 0
         /\ v.coverage > int(recs[1][7])
         /\ v.multimap_coverage > int(recs[1][8])

\* C16: over every step, every key of the mapping stays with a max overhang
\* that is not lower than before, whatever overhang the line ingested has.
C16_OverhangNeverDecreases ==
  [][\A i \in 1..Len(accumulator) :
       \E j \in 1..Len(accumulator') :
         /\ accumulator'[j].key = accumulator[i].key
         /\ accumulator'[j].value.alignment_overhang
              >= accumulator[i].value.alignment_overhang]_vars

\* An entry that holds its overhang after a record with a lower overhang, one
\* below zero or not, was merged into it.
C16_Witness ==
  /\ ~LineRaised
  /\ seen # <<>>
  /\ LET f == seen[Len(seen)] IN
       /\ Len(f) = 9
       /\ Accepted(f)
       /\ FirstAccepted(TextKey(f)) < Len(seen)
       /\ \E v \in Entries :
            /\ EntryKey(v) = TextKey(f)
            /\ int(f[9]) < v.alignment_overhang
            /\ v.alignment_overhang = int(seen[FirstAccepted(TextKey(f))][9])

\* C17: in every state, while lines are ingested and after, every entry of
\* the mapping has coordinates for which a record with annotated flag 0 and
\* end - start >= min_junction_length has been read: lines that were skipped
\* or rejected back no entry.
C17_EveryEntryHasAcceptedRecord ==
  \A i \in 1..Len(accumulator) :
    \E n \in 1..Len(seen) :
      /\ Len(seen[n]) >= 9
      /\ IsInt(seen[n][2]) /\ IsInt(seen[n][3]) /\ IsInt(seen[n][6])
      /\ int(seen[n][6]) = 0
      /\ int(seen[n][3]) - int(seen[n][2]) >= min_junction_length
      /\ KeyOf(seen[n]) = accumulator[i].key

\* A mapping with an entry, after a record that was too short, whose junction
\* has no entry, and an annotated record were read.
C17_Witness ==
  /\ accumulator # <<>>
  /\ \E a, b \in 1..Len(seen) :
       /\ IsRecord(seen[a]) /\ Span(seen[a]) < min_junction_length
       /\ IsRecord(seen[b]) /\ FlagIs(seen[b], 1)
       /\ \A i \in 1..Len(accumulator) : accumulator[i].key # KeyOf(seen[a])

\* C18: over every step, of ingestion and of the writer, every key of the
\* mapping stays in the mapping at its place, with the coordinates and the
\* splice-site code it had: an entry is never deleted nor replaced, a later
\* record of the key changes the counters of the entry that is there.
C18_EntriesStay ==
  [][/\ Len(accumulator') >= Len(accumulator)
     /\ \A i \in 1..Len(accumulator) :
          /\ accumulator'[i].key = accumulator[i].key
          /\ EntryKey(accumulator'[i].value) = EntryKey(accumulator[i].value)
          /\ accumulator'[i].value.splice_sites
               = accumulator[i].value.splice_sites]_vars

\* A finished run whose mapping still holds an entry merged from two records
\* and an entry, inserted after it, that the writer passed over.
C18_Witness ==
  /\ pc = "done"
  /\ \E i, j \in 1..Len(accumulator) :
       /\ i < j
       /\ LastAccepted(EntryKey(accumulator[i].value))
            > FirstAccepted(EntryKey(accumulator[i].value))
       /\ LinesFor(FieldsWritten, accumulator[i].value) # {}
       /\ LinesFor(FieldsWritten, accumulator[j].value) = {}

\* A record the ingest filter rejects: the nine fields, integer coordinates,
\* and end - start below the minimum or the annotated flag 1.
Rejected(f) ==
  /\ Len(f) = 9
  /\ IsInt(f[2]) /\ IsInt(f[3])
  /\ (Span(f) < min_junction_length \/ FlagIs(f, 1))

\* C20: a step that ingests a record rejected for its length or for its
\* annotated flag leaves the whole mapping as it was and raises nothing,
\* also when the mapping has an entry for the record's key.
C20_RejectedRecordChangesNothing ==
  [][(LineWasRead /\ Rejected(seen'[Len(seen')])) =>
       /\ accumulator' = accumulator
       /\ raised' = "none"
       /\ pc' = pc]_vars

\* The last line read is an annotated record, long enough, of a junction that
\* has an entry, and the entry holds what the records before gave it.
C20_Witness ==
  /\ ~LineRaised
  /\ seen # <<>>
  /\ LET f == seen[Len(seen)] IN
       /\ Rejected(f)
       /\ Span(f) >= min_junction_length
       /\ int(f[7]) > 0
       /\ \E v \in Entries :
            /\ EntryKey(v) = TextKey(f)
            /\ v.coverage
                 = SumField(RecordsOf(SubSeq(seen, 1, Len(seen) - 1), TextKey(f)), 7)

\* C21 as stated: a step that ingests a line of fewer than 9 fields, or a
\* record the length or annotation filter rejects, raises nothing and leaves
\* the run reading, with the mapping as it was, so that the lines and files
\* after it are still ingested.
C21_RejectionNeverEndsRun ==
  [][(LineWasRead /\ (Len(seen'[Len(seen')]) < 9 \/ Rejected(seen'[Len(seen')])))
       => /\ pc' = "read"
          /\ raised' = "none"
          /\ accumulator' = accumulator]_vars

\* The entries the writer has passed whose unique coverage reaches the
\* threshold.
PassedAndQualifying ==
  {i \in 1..Len(accumulator) :
     /\ i < wi
     /\ accumulator[i].value.coverage >= min_junction_coverage}

\* C22: the output file is opened and written only when ingestion is over:
\* while the run reads, no output file exists and no line is written; once
\* it has stopped reading, no line is read and the mapping no longer changes;
\* the writer passes the entries one by one, each once, and has written one
\* line per qualifying entry passed; an output open that fails leaves the
\* run aborted after ingestion, with no file and no line.
C22_OutputAfterIngestion ==
  /\ [](pc = "read" => ~created /\ out = <<>> /\ wi = 0)
  /\ [](raised = "open_output" =>
          pc = "error" /\ ~created /\ out = <<>> /\ files # <<>>)
  /\ [](pc \in {"write", "done"} =>
          /\ created
          /\ wi \in 1..(Len(accumulator) + 1)
          /\ Len(out) = Cardinality(PassedAndQualifying)
          /\ pc = "done" => wi = Len(accumulator) + 1)
  /\ [][pc # "read" =>
          /\ seen' = seen /\ files' = files /\ accumulator' = accumulator
          /\ wi' \in {wi, wi + 1}]_vars

\* A finished run over two files, each with an accepted record, in which the
\* writer passed two entries and wrote one of them.
C22_Witness ==
  /\ pc = "done"
  /\ Len(files) = 2
  /\ files[1] # <<>> /\ files[2] # <<>>
  /\ Len(accumulator) = 2
  /\ Len(out) = 1
  /\ FirstAccepted(EntryKey(accumulator[2].value)) > Len(files[1])

\* The run has completed or has aborted.
Ended == pc \in {"done", "error"}

\* C23: every run over finitely many lines ends, completed or aborted; a run
\* that has ended takes no further step, an aborted run has raised and a
\* completed one has not; every line of the files was ingested once, in
\* order, and the writer is never past the end of the mapping.
C23_RunEnds ==
  /\ <>Ended
  /\ [][~Ended]_vars
  /\ [](/\ (pc = "error") <=> (raised # "none")
        /\ Len(seen) = Len(LinesRead)
        /\ wi <= Len(accumulator) + 1)

\* A run completed after reading lines from two files and passing an entry.
C23_Witness ==
  /\ pc = "done"
  /\ Len(files) >= 2
  /\ Len(seen) >= 2
  /\ wi = Len(accumulator) + 1
  /\ accumulator # <<>>
  /\ ~ENABLED Next

\* A step has read a line whose key the mapping already holds, past both
\* filters: the step is a merge.
IsMerge ==
  /\ LineWasRead
  /\ LET f == seen'[Len(seen')] IN
       /\ Len(f) = 9
       /\ Accepted(f)
       /\ \E i \in 1..Len(accumulator) : accumulator[i].key = KeyOf(f)

\* C24: a step that merges a record into an entry leaves the mapping with
\* the same keys in the same order, every other entry as it was, and the
\* merged entry with its chromosome, start, end, strand and splice-site
\* code: only its unique coverage, multimap coverage and max overhang may
\* differ.
C24_MergeChangesOnlyCounters ==
  [][IsMerge =>
       LET k == KeyOf(seen'[Len(seen')]) IN
         /\ Len(accumulator') = Len(accumulator)
         /\ \A i \in 1..Len(accumulator) :
              /\ accumulator'[i].key = accumulator[i].key
              /\ accumulator[i].key # k => accumulator'[i] = accumulator[i]
              /\ accumulator'[i].value
                   = [accumulator[i].value EXCEPT
                        !.coverage = accumulator'[i].value.coverage,
                        !.multimap_coverage =
                          accumulator'[i].value.multimap_coverage,
                        !.alignment_overhang =
                          accumulator'[i].value.alignment_overhang]]_vars

\* The first of two entries after a record with another splice-site code and
\* greater counters was merged into it as the last line read.
C24_Witness ==
  /\ ~LineRaised
  /\ Len(accumulator) = 2
  /\ seen # <<>>
  /\ LET f == seen[Len(seen)]
         v == accumulator[1].value
     IN  /\ Len(f) = 9
         /\ Accepted(f)
         /\ TextKey(f) = EntryKey(v)
         /\ FirstAccepted(TextKey(f)) < Len(seen)
         /\ f[5] # v.splice_sites
         /\ v.coverage > int(f[7])
         /\ int(f[7]) > 0

\* C25: when a run has completed, a run with its output file as the only
\* input, under any of the thresholds, raises nothing, stores no entry and
\* writes no line: every output line is a nine-field record with the
\* annotated flag 1.
C25_OwnOutputYieldsNothing ==
  pc = "done" =>
    /\ \A j \in 1..Len(out) :
         Len(split(out[j])) = 9 /\ FlagIs(split(out[j]), 1)
    /\ \A ml \in MinLengths, mc \in MinCoverages :
         /\ read_junctions(<<out>>, ml).accumulator = <<>>
         /\ run(<<out>>, ml, mc) = [raised |-> "none", out |-> <<>>]

\* A completed run with two output lines, both long enough for the second
\* run's length filter, so that the annotation filter is what drops them.
C25_Witness ==
  /\ pc = "done"
  /\ Len(out) = 2
  /\ read_junctions(<<out>>, min_junction_length).printed = <<>>
  /\ \A j \in 1..Len(out) : Span(split(out[j])) >= min_junction_length

\* s is a subsequence of t: the elements of s, in their order, among those
\* of t.
RECURSIVE IsSubsequence(_, _)
IsSubsequence(s, t) ==
  IF s = <<>> THEN TRUE
  ELSE IF t = <<>> THEN FALSE
  ELSE IF Head(s) = Head(t) THEN IsSubsequence(Tail(s), Tail(t))
  ELSE IsSubsequence(s, Tail(t))

\* C26 as stated: the output of a completed run is a subsequence of the
\* output of the run on the same files under every threshold pair that is
\* not higher: lowering min_junction_length or min_junction_coverage removes
\* no line and changes none.
C26_HigherThresholdSubsequence ==
  pc = "done" =>
    \A ml \in MinLengths, mc \in MinCoverages :
      (ml <= min_junction_length /\ mc <= min_junction_coverage) =>
        IsSubsequence(out, run(files, ml, mc).out)

\* C27: when read_junctions has returned, its mapping and messages are those
\* it returns for the one file made of the lines of all the files in order,
\* and the lines a completed run has written are those of the run on that
\* one file.
C27_FileBoundariesIrrelevant ==
  Returned =>
    LET one == <<LinesRead>>
        r == read_junctions(one, min_junction_length)
    IN  /\ r.raised = "none"
        /\ r.accumulator = accumulator
        /\ r.printed = printed
        /\ pc = "done" =>
             out = run(one, min_junction_length, min_junction_coverage).out

\* A completed run over two files whose written entry is pooled from a
\* record of each.
C27_Witness ==
  /\ pc = "done"
  /\ Len(files) = 2
  /\ out # <<>>
  /\ \E i \in 1..Len(accumulator) :
       LET k == EntryKey(accumulator[i].value) IN
         /\ FirstAccepted(k) \in 1..Len(files[1])
         /\ LastAccepted(k) > Len(files[1])
         /\ accumulator[i].value.coverage >= min_junction_coverage

\* C28 as stated: every 'shorter than' message printed names the
\* min_junction_length the run was given.
C28_MessageNamesThreshold ==
  \A i \in 1..Len(printed) : printed[i].shorter_than = min_junction_length

====
